---- MODULE Spec2Model ----
(***************************************************************************)
(* A model of the CSS tokenizer of src/src/tokenizer.rs.                   *)
(*                                                                         *)
(* The input is a sequence of UTF-8 bytes (integers 0..255); `position` is *)
(* a byte offset into it, exactly as in the source.  Characters are their  *)
(* code points.  Every scanner of the source is an operator of the same    *)
(* name that takes the cursor position and returns the new position with   *)
(* what the scanner returns; a loop of the source is a RECURSIVE operator. *)
(* A panic of the source (a failed unwrap, an out-of-range or non-boundary *)
(* string index, a failed assert!) is the result Panic: the call does not  *)
(* return and the tokenizer is not used again.                             *)
(***************************************************************************)
EXTENDS Integers, Sequences, FiniteSets

VARIABLES
    input,      \* Tokenizer.input, as bytes
    position,   \* Tokenizer.position
    buffer,     \* Tokenizer.buffer: Option<Token>
    lastOp,     \* the last call made: "new", "next", "peek" or "push_back"
    prevOp,     \* the call made before it
    result,     \* what the last next/peek returned (push_back keeps it)
    tok,        \* the token the last run of next_token produced
    prevTok,    \* the token next_token produced before that one
    spanStart,  \* position when the run that produced tok began
    tokStart,   \* position in that run after consume_comments
    tokEnd      \* position when that run returned

vars ==
    <<input, position, buffer, lastOp, prevOp, result, tok, prevTok,
      spanStart, tokStart, tokEnd>>

----------------------------------------------------------------------------
(* Characters the source names.                                            *)

NUL == 0
TAB == 9
LF == 10
VT == 11
FF == 12
CR == 13
SPACE == 32
DQUOTE == 34
HASH == 35
DOLLAR == 36
PERCENT == 37
SQUOTE == 39
LPAREN == 40
RPAREN == 41
STAR == 42
PLUS == 43
COMMA == 44
MINUS == 45
DOT == 46
SLASH == 47
COLON == 58
SEMICOLON == 59
LESS == 60
EQUALS == 61
QUESTION == 63
AT == 64
LBRACKET == 91
BACKSLASH == 92
RBRACKET == 93
CARET == 94
UNDERSCORE == 95
LBRACE == 123
PIPE == 124
RBRACE == 125
TILDE == 126
DEL == 127
REPLACEMENT_CHAR == 65533

is_digit(c) == c >= 48 /\ c <= 57                  \* '0'...'9'
is_lower(c) == c >= 97 /\ c <= 122                 \* 'a'...'z'
is_upper(c) == c >= 65 /\ c <= 90                  \* 'A'...'Z'
is_letter(c) == is_lower(c) \/ is_upper(c)
is_hex_digit(c) == is_digit(c) \/ (c >= 65 /\ c <= 70) \/ (c >= 97 /\ c <= 102)
is_newline(c) == c \in {LF, CR, FF}                \* '\n' | '\r' | '\x0C'
is_whitespace(c) == c \in {SPACE, TAB, LF, CR, FF}
is_non_ascii(c) == c > 127                         \* c > '\x7F'

----------------------------------------------------------------------------
(* Tokens.  One record shape for every variant; a variant uses the fields  *)
(* of its payload and leaves the others at their defaults.                 *)

NoInt == [some |-> FALSE, neg |-> FALSE, digits |-> <<>>]

Token(kind) ==
    [kind |-> kind, text |-> <<>>, c |-> 0, start |-> 0, end |-> 0,
     repr |-> <<>>, int_value |-> NoInt, signed |-> FALSE]

TextToken(kind, value) == [Token(kind) EXCEPT !.text = value]
Delim(c) == [Token("Delim") EXCEPT !.c = c]
UnicodeRange(s, e) == [Token("UnicodeRange") EXCEPT !.start = s, !.end = e]

\* NumericValue { value, int_value, signed }: `value` is the f64 the literal
\* text `repr` parses to, kept as that text.
NumericToken(kind, repr, int_value, signed, unit) ==
    [Token(kind) EXCEPT !.repr = repr, !.int_value = int_value,
                        !.signed = signed, !.text = unit]

EndOfInput == Token("EndOfInput")   \* Err(()) of next/peek, None of next_token
Panic == Token("Panic")             \* the call panicked
NoResult == Token("NoResult")       \* nothing returned yet

IsToken(t) == t.kind \notin {"EndOfInput", "Panic", "NoResult"}

None == [some |-> FALSE, token |-> NoResult]
Some(t) == [some |-> TRUE, token |-> t]

----------------------------------------------------------------------------
(* The cursor helpers of impl Tokenizer.                                   *)

has_at_least(p, n) == p + n < Len(input)
is_eof(p) == ~has_at_least(p, 0)
advance(p, n) == p + n

\* Width of the UTF-8 sequence a byte starts; 0 for a continuation byte.
utf8_char_width(b) ==
    IF b < 128 THEN 1
    ELSE IF b >= 194 /\ b <= 223 THEN 2
    ELSE IF b >= 224 /\ b <= 239 THEN 3
    ELSE IF b >= 240 /\ b <= 244 THEN 4
    ELSE 0

is_char_boundary(p) ==
    \/ p = Len(input)
    \/ p >= 0 /\ p < Len(input) /\ utf8_char_width(input[p + 1]) # 0

\* str::char_range_at panics at or past the end and inside a character.
char_fault(p) == p >= Len(input) \/ utf8_char_width(input[p + 1]) = 0

\* str::char_range_at: the character at byte p and the offset after it.
char_range_at(p) ==
    LET b == input[p + 1]
        w == utf8_char_width(b)
    IN  IF w = 1 THEN [ch |-> b, next |-> p + 1]
        ELSE IF w = 2 THEN
            [ch |-> (b - 192) * 64 + (input[p + 2] - 128), next |-> p + 2]
        ELSE IF w = 3 THEN
            [ch |-> (b - 224) * 4096 + (input[p + 2] - 128) * 64
                    + (input[p + 3] - 128),
             next |-> p + 3]
        ELSE
            [ch |-> (b - 240) * 262144 + (input[p + 2] - 128) * 4096
                    + (input[p + 3] - 128) * 64 + (input[p + 4] - 128),
             next |-> p + 4]

char_at(p, offset) == char_range_at(p + offset).ch
current_char(p) == char_at(p, 0)

has_newline_at(p, offset) ==
    p + offset < Len(input) /\ is_newline(char_at(p, offset))

consume_char(p) == char_range_at(p)

\* str::slice_from panics when position is past the end or inside a character.
slice_fault(p) == ~is_char_boundary(p)

starts_with(p, needle) ==
    /\ p + Len(needle) <= Len(input)
    /\ SubSeq(input, p + 1, p + Len(needle)) = needle

slice_from(start_pos, p) == SubSeq(input, start_pos + 1, p)

----------------------------------------------------------------------------
(* What a scanner returns: the position it leaves the cursor at, and its   *)
(* token; panic when it did not return.                                    *)

Res(p, t) == [pos |-> p, tok |-> t, panic |-> FALSE]
PanicAt(p) == [pos |-> p, tok |-> Panic, panic |-> TRUE]

----------------------------------------------------------------------------
(* consume_comments                                                        *)

\* The inner loop: to just after the first "*/", or to the end of input.
RECURSIVE comment_body(_)
comment_body(p) ==
    IF is_eof(p) THEN p
    ELSE LET r == consume_char(p)
         IN  IF r.ch = STAR /\ ~is_eof(r.next) /\ current_char(r.next) = SLASH
             THEN advance(r.next, 1)
             ELSE comment_body(r.next)

\* Faulty variant of consume_comments: `if` for `while`, one comment skipped.
consume_comments_once(p) ==
    IF slice_fault(p) THEN [pos |-> p, panic |-> TRUE]
    ELSE IF starts_with(p, <<SLASH, STAR>>)
         THEN [pos |-> comment_body(advance(p, 2)), panic |-> FALSE]
         ELSE [pos |-> p, panic |-> FALSE]

RECURSIVE consume_comments(_)
consume_comments(p) ==
    IF slice_fault(p) THEN [pos |-> p, panic |-> TRUE]
    ELSE IF starts_with(p, <<SLASH, STAR>>)
         THEN consume_comments(comment_body(advance(p, 2)))
         ELSE [pos |-> p, panic |-> FALSE]

----------------------------------------------------------------------------
(* consume_escape                                                          *)

hex_digit_value(c) ==
    IF is_digit(c) THEN c - 48 ELSE IF c >= 97 THEN c - 87 ELSE c - 55

\* num::from_str_radix(hex, 16) of at most 6 hex digits
RECURSIVE from_str_radix_16(_)
from_str_radix_16(hex) ==
    IF hex = <<>> THEN 0
    ELSE from_str_radix_16(SubSeq(hex, 1, Len(hex) - 1)) * 16
         + hex_digit_value(hex[Len(hex)])

\* Faulty variant of escape_code_point: only zero is replaced.
escape_code_point_unchecked(c) == IF c # 0 THEN c ELSE REPLACEMENT_CHAR

\* char::from_u32(c).unwrap_or(REPLACEMENT_CHAR), and REPLACEMENT_CHAR for 0
escape_code_point(c) ==
    IF c # 0
    THEN IF c > 1114111 \/ (c >= 55296 /\ c <= 57343) THEN REPLACEMENT_CHAR ELSE c
    ELSE REPLACEMENT_CHAR

\* The loop that reads hex digits while fewer than 6 are held.
RECURSIVE escape_hex_digits(_, _)
escape_hex_digits(p, hex) ==
    IF Len(hex) < 6 /\ ~is_eof(p) /\ is_hex_digit(current_char(p))
    THEN escape_hex_digits(advance(p, 1), Append(hex, current_char(p)))
    ELSE [pos |-> p, hex |-> hex]

\* One whitespace after the hex digits, "\r\n" counting as one.
escape_trailing_whitespace(p) ==
    IF ~is_eof(p)
    THEN LET c == current_char(p)
         IN  IF c \in {SPACE, TAB, LF, FF} THEN advance(p, 1)
             ELSE IF c = CR
                  THEN IF ~is_eof(advance(p, 1)) /\ current_char(advance(p, 1)) = LF
                       THEN advance(p, 2)
                       ELSE advance(p, 1)
                  ELSE p
    ELSE p

consume_escape(p) ==
    IF is_eof(p) THEN [pos |-> p, ch |-> REPLACEMENT_CHAR]
    ELSE LET r == consume_char(p)
         IN  IF is_hex_digit(r.ch)
             THEN LET h == escape_hex_digits(r.next, <<r.ch>>)
                  IN  [pos |-> escape_trailing_whitespace(h.pos),
                       ch |-> escape_code_point(from_str_radix_16(h.hex))]
             ELSE [pos |-> r.next, ch |-> r.ch]

----------------------------------------------------------------------------
(* is_ident_start, consume_name                                            *)

is_ident_start(p) ==
    /\ ~is_eof(p)
    /\ LET c == current_char(p)
       IN  IF is_letter(c) \/ c = UNDERSCORE \/ c = NUL THEN TRUE
           ELSE IF c = MINUS
           THEN /\ has_at_least(p, 1)
                /\ LET d == char_at(p, 1)
                   IN  IF is_letter(d) \/ d = MINUS \/ d = UNDERSCORE \/ d = NUL
                       THEN TRUE
                       ELSE IF d = BACKSLASH THEN ~has_newline_at(p, 1)
                       ELSE is_non_ascii(d)
           ELSE IF c = BACKSLASH THEN ~has_newline_at(p, 1)
           ELSE is_non_ascii(c)

RECURSIVE consume_name_loop(_, _)
consume_name_loop(p, value) ==
    IF is_eof(p) THEN [pos |-> p, value |-> value]
    ELSE LET c == current_char(p)
         IN  IF is_letter(c) \/ is_digit(c) \/ c = UNDERSCORE \/ c = MINUS
             THEN consume_name_loop(advance(p, 1), Append(value, c))
             ELSE IF c = BACKSLASH
             THEN IF has_newline_at(p, 1) THEN [pos |-> p, value |-> value]
                  ELSE LET e == consume_escape(advance(p, 1))
                       IN  consume_name_loop(e.pos, Append(value, e.ch))
             ELSE IF c = NUL
             THEN consume_name_loop(advance(p, 1), Append(value, REPLACEMENT_CHAR))
             ELSE IF is_non_ascii(c)
             THEN consume_name_loop(consume_char(p).next, Append(value, c))
             ELSE [pos |-> p, value |-> value]

consume_name(p) == consume_name_loop(p, <<>>)

----------------------------------------------------------------------------
(* consume_string, consume_quoted_string                                   *)

RECURSIVE quoted_string_loop(_, _, _)
quoted_string_loop(p, string, single_quote) ==
    IF is_eof(p) THEN [pos |-> p, value |-> string, ok |-> TRUE]
    ELSE IF is_newline(current_char(p))
    THEN [pos |-> p, value |-> string, ok |-> FALSE]
    ELSE LET r == consume_char(p)
             q == r.next
         IN  IF r.ch = DQUOTE /\ ~single_quote
             THEN [pos |-> q, value |-> string, ok |-> TRUE]
             ELSE IF r.ch = SQUOTE /\ single_quote
             THEN [pos |-> q, value |-> string, ok |-> TRUE]
             ELSE IF r.ch = BACKSLASH
             THEN IF ~is_eof(q)
                  THEN LET d == current_char(q)
                       IN  IF d = LF \/ d = FF
                           THEN quoted_string_loop(advance(q, 1), string, single_quote)
                           ELSE IF d = CR
                           THEN quoted_string_loop(
                                    IF ~is_eof(advance(q, 1))
                                       /\ current_char(advance(q, 1)) = LF
                                    THEN advance(q, 2) ELSE advance(q, 1),
                                    string, single_quote)
                           ELSE LET e == consume_escape(q)
                                IN  quoted_string_loop(e.pos, Append(string, e.ch),
                                                       single_quote)
                  ELSE quoted_string_loop(q, string, single_quote)
             ELSE IF r.ch = NUL
             THEN quoted_string_loop(q, Append(string, REPLACEMENT_CHAR), single_quote)
             ELSE quoted_string_loop(q, Append(string, r.ch), single_quote)

consume_quoted_string(p, single_quote) ==
    quoted_string_loop(advance(p, 1), <<>>, single_quote)

\* Faulty variant of string_token: the newline that ends a bad string is
\* consumed with it.
string_token_past_newline(s) ==
    IF s.ok THEN Res(s.pos, TextToken("QuotedString", s.value))
    ELSE Res(s.pos + 1, Token("BadString"))

\* The match on the result of consume_quoted_string.
string_token(s) ==
    IF s.ok THEN Res(s.pos, TextToken("QuotedString", s.value))
    ELSE Res(s.pos, Token("BadString"))

consume_string(p, single_quote) ==
    string_token(consume_quoted_string(p, single_quote))

----------------------------------------------------------------------------
(* consume_url and its inner functions                                     *)

\* "Consume up to the closing )": after a backslash the cursor moves one byte
\* on, whatever is there.
RECURSIVE consume_bad_url(_)
consume_bad_url(p) ==
    IF is_eof(p) THEN Res(p, Token("BadUrl"))
    ELSE IF char_fault(p) THEN PanicAt(p)
    ELSE LET r == consume_char(p)
         IN  IF r.ch = RPAREN THEN Res(r.next, Token("BadUrl"))
             ELSE IF r.ch = BACKSLASH THEN consume_bad_url(advance(r.next, 1))
             ELSE consume_bad_url(r.next)

RECURSIVE consume_url_end(_, _)
consume_url_end(p, string) ==
    IF is_eof(p) THEN Res(p, TextToken("Url", string))
    ELSE LET r == consume_char(p)
         IN  IF is_whitespace(r.ch) THEN consume_url_end(r.next, string)
             ELSE IF r.ch = RPAREN THEN Res(r.next, TextToken("Url", string))
             ELSE consume_bad_url(r.next)

\* '\x01'...'\x08' | '\x0B' | '\x0E'...'\x1F' | '\x7F'
is_non_printable(c) ==
    (c >= 1 /\ c <= 8) \/ c = VT \/ (c >= 14 /\ c <= 31) \/ c = DEL

RECURSIVE unquoted_url_loop(_, _)
unquoted_url_loop(p, string) ==
    IF is_eof(p) THEN Res(p, TextToken("Url", string))
    ELSE LET r == consume_char(p)
             q == r.next
         IN  IF is_whitespace(r.ch) THEN consume_url_end(q, string)
             ELSE IF r.ch = RPAREN THEN Res(q, TextToken("Url", string))
             ELSE IF is_non_printable(r.ch) \/ r.ch \in {DQUOTE, SQUOTE, LPAREN}
             THEN consume_bad_url(q)
             ELSE IF r.ch = BACKSLASH
             THEN IF has_newline_at(q, 0) THEN consume_bad_url(q)
                  ELSE LET e == consume_escape(q)
                       IN  unquoted_url_loop(e.pos, Append(string, e.ch))
             ELSE IF r.ch = NUL
             THEN unquoted_url_loop(q, Append(string, REPLACEMENT_CHAR))
             ELSE unquoted_url_loop(q, Append(string, r.ch))

consume_unquoted_url(p) == unquoted_url_loop(p, <<>>)

\* The match on the result of consume_quoted_string.
quoted_url_end(s) ==
    IF s.ok THEN consume_url_end(s.pos, s.value)
    ELSE consume_bad_url(s.pos)

consume_quoted_url(p, single_quote) ==
    quoted_url_end(consume_quoted_string(p, single_quote))

RECURSIVE consume_url(_)
consume_url(p) ==
    IF is_eof(p) THEN Res(p, TextToken("Url", <<>>))
    ELSE LET c == current_char(p)
         IN  IF is_whitespace(c) THEN consume_url(advance(p, 1))
             ELSE IF c = DQUOTE \/ c = SQUOTE THEN consume_quoted_url(p, c = SQUOTE)
             ELSE IF c = RPAREN THEN Res(advance(p, 1), TextToken("Url", <<>>))
             ELSE consume_unquoted_url(p)

----------------------------------------------------------------------------
(* consume_ident_like                                                      *)

to_ascii_lower(c) == IF is_upper(c) THEN c + 32 ELSE c

\* value.eq_ignore_ascii_case("url")
eq_ignore_ascii_case_url(value) ==
    /\ Len(value) = 3
    /\ [i \in 1..3 |-> to_ascii_lower(value[i])] = <<117, 114, 108>>

\* What follows the name n: "(" makes a url or a Function, else an Ident.
ident_like_token(n) ==
    IF ~is_eof(n.pos) /\ current_char(n.pos) = LPAREN
    THEN IF eq_ignore_ascii_case_url(n.value)
         THEN consume_url(advance(n.pos, 1))
         ELSE Res(advance(n.pos, 1), TextToken("Function", n.value))
    ELSE Res(n.pos, TextToken("Ident", n.value))

consume_ident_like(p) == ident_like_token(consume_name(p))

----------------------------------------------------------------------------
(* consume_digits, consume_numeric                                         *)

RECURSIVE consume_digits(_)
consume_digits(p) ==
    IF ~is_eof(p) /\ is_digit(current_char(p)) THEN consume_digits(advance(p, 1))
    ELSE p

\* The decimal digits of i64::MAX, 9223372036854775807.
I64_MAX_DIGITS == <<9, 2, 2, 3, 3, 7, 2, 0, 3, 6, 8, 5, 4, 7, 7, 5, 8, 0, 7>>

RECURSIVE strip_leading_zeros(_)
strip_leading_zeros(ds) ==
    IF Len(ds) > 1 /\ ds[1] = 0 THEN strip_leading_zeros(Tail(ds)) ELSE ds

\* a > b for digit strings of one length
digits_greater(a, b) ==
    \E i \in 1..Len(a) : a[i] > b[i] /\ \A j \in 1..(i - 1) : a[j] = b[j]

\* from_str::<i64>(repr): None when the value does not fit 64 bits.  The value
\* is kept as its sign and its digits without leading zeros.
from_str_i64(repr) ==
    LET neg == repr[1] = MINUS
        body == IF neg THEN Tail(repr) ELSE repr
        ds == strip_leading_zeros([i \in 1..Len(body) |-> body[i] - 48])
        \* i64::MIN is -(i64::MAX + 1)
        limit == IF neg THEN [I64_MAX_DIGITS EXCEPT ![19] = 8] ELSE I64_MAX_DIGITS
    IN  IF Len(ds) > 19 \/ (Len(ds) = 19 /\ digits_greater(ds, limit))
        THEN NoInt
        ELSE [some |-> TRUE, neg |-> neg /\ ds # <<0>>, digits |-> ds]

\* Faulty variant of numeric_is_integer: the exponent branch does not clear it.
numeric_is_integer_no_exponent(has_fraction, has_exponent) == ~has_fraction

\* is_integer after the fraction and exponent branches
numeric_is_integer(has_fraction, has_exponent) ==
    IF has_exponent THEN FALSE ELSE IF has_fraction THEN FALSE ELSE TRUE

\* The token after the literal [start_pos, p): Percentage, Dimension or Number.
numeric_token(start_pos, p, signed, is_integer) ==
    LET whole == slice_from(start_pos, p)
        repr == IF whole[1] = PLUS THEN Tail(whole) ELSE whole
        parsed == IF is_integer THEN from_str_i64(repr) ELSE NoInt
    IN  IF is_integer /\ ~parsed.some THEN PanicAt(p)   \* unwrap() of None
        ELSE IF ~is_eof(p) /\ current_char(p) = PERCENT
        THEN Res(advance(p, 1),
                 NumericToken("Percentage", repr, parsed, signed, <<>>))
        ELSE IF is_ident_start(p)
        THEN LET n == consume_name(p)
             IN  Res(n.pos, NumericToken("Dimension", repr, parsed, signed, n.value))
        ELSE Res(p, NumericToken("Number", repr, parsed, signed, <<>>))

\* [eE][+-]?\d+ when the digit is there
numeric_has_exponent(p) ==
    \/ /\ has_at_least(p, 1)
       /\ current_char(p) \in {101, 69}
       /\ is_digit(char_at(p, 1))
    \/ /\ has_at_least(p, 2)
       /\ current_char(p) \in {101, 69}
       /\ char_at(p, 1) \in {PLUS, MINUS}
       /\ is_digit(char_at(p, 2))

numeric_exponent(start_pos, p, signed, has_fraction) ==
    LET has_exponent == numeric_has_exponent(p)
    IN  numeric_token(start_pos,
                      IF has_exponent THEN consume_digits(advance(p, 2)) ELSE p,
                      signed, numeric_is_integer(has_fraction, has_exponent))

\* \.\d+ when the digit is there
\* Faulty variant of numeric_has_fraction: the digit after '.' is not asked for.
numeric_has_fraction_any(p) == has_at_least(p, 1) /\ current_char(p) = DOT

numeric_has_fraction(p) ==
    has_at_least(p, 1) /\ current_char(p) = DOT /\ is_digit(char_at(p, 1))

numeric_fraction(start_pos, p, signed) ==
    LET has_fraction == numeric_has_fraction(p)
    IN  numeric_exponent(start_pos,
                         IF has_fraction THEN consume_digits(advance(p, 2)) ELSE p,
                         signed, has_fraction)

consume_numeric(p) ==
    LET signed == current_char(p) \in {MINUS, PLUS}
    IN  numeric_fraction(p, consume_digits(IF signed THEN advance(p, 1) ELSE p),
                         signed)

----------------------------------------------------------------------------
(* consume_unicode_range                                                   *)

RECURSIVE range_hex_digits(_, _)
range_hex_digits(p, hex) ==
    IF Len(hex) < 6 /\ ~is_eof(p) /\ is_hex_digit(current_char(p))
    THEN range_hex_digits(consume_char(p).next, Append(hex, current_char(p)))
    ELSE [pos |-> p, hex |-> hex]

RECURSIVE range_question_marks(_, _, _)
range_question_marks(p, question_marks, max_question_marks) ==
    IF question_marks < max_question_marks /\ ~is_eof(p)
       /\ current_char(p) = QUESTION
    THEN range_question_marks(advance(p, 1), question_marks + 1, max_question_marks)
    ELSE [pos |-> p, question_marks |-> question_marks]

\* The hex digits after the '-' of a range.
RECURSIVE range_end_hex_digits(_, _)
range_end_hex_digits(p, hex) ==
    IF Len(hex) < 6 /\ ~is_eof(p) /\ is_hex_digit(current_char(p))
    THEN range_end_hex_digits(advance(p, 1), Append(hex, current_char(p)))
    ELSE [pos |-> p, hex |-> hex]

\* Faulty variant of shl: the shift is by n / 4 bits, the count of question
\* marks, not by 4 bits for each.
shl_one_bit_each(x, n) == x * (2 ^ (n \div 4))

\* first << n and (first + 1) << n stay below 2^24: at most 6 hex digits and
\* question marks together.
shl(x, n) == x * (2 ^ n)

\* Faulty variant of wildcard_end: the + 1 is left out.
wildcard_end_low(first, question_marks) == shl(first, question_marks * 4) - 1

\* end = ((first + 1) << (question_marks * 4)) - 1
wildcard_end(first, question_marks) == shl(first + 1, question_marks * 4) - 1

consume_unicode_range(p) ==
    LET h == range_hex_digits(advance(p, 2), <<>>)
        q == range_question_marks(h.pos, 0, 6 - Len(h.hex))
        first == IF Len(h.hex) > 0 THEN from_str_radix_16(h.hex) ELSE 0
    IN  IF q.question_marks > 0
        THEN Res(q.pos, UnicodeRange(shl(first, q.question_marks * 4),
                                     wildcard_end(first, q.question_marks)))
        ELSE IF ~is_eof(q.pos) /\ current_char(q.pos) = MINUS
        THEN LET e == range_end_hex_digits(advance(q.pos, 1), <<>>)
             IN  Res(e.pos, UnicodeRange(first,
                                         IF Len(e.hex) > 0
                                         THEN from_str_radix_16(e.hex) ELSE first))
        ELSE Res(q.pos, UnicodeRange(first, first))

----------------------------------------------------------------------------
(* next_token                                                              *)

\* Faulty variants of whitespace_run: one that consumes nothing, one that
\* stops after the first whitespace character.
whitespace_run_none(p) == p
whitespace_run_one(p) == advance(p, 1)

RECURSIVE whitespace_run(_)
whitespace_run(p) ==
    IF ~is_eof(p) /\ is_whitespace(current_char(p))
    THEN whitespace_run(advance(p, 1))
    ELSE p

\* An arm of the match that ends in a call of one of the scanners names the
\* scanner; next_token_match makes the call.
Call(scanner) == [pos |-> 0, tok |-> [kind |-> "Call", text |-> scanner]]

\* Token::IDHash(consume_name(..)), Hash(..), AtKeyword(..)
name_token(kind, n) == Res(n.pos, TextToken(kind, n.value))

\* '#': IDHash, Hash or Delim.  In the Hash test the last arm compares c,
\* the '#' itself.
hash_arm(p, c) ==
    LET q == advance(p, 1)
    IN  IF is_ident_start(q)
        THEN name_token("IDHash", consume_name(q))
        ELSE IF /\ ~is_eof(q)
                /\ LET d == current_char(q)
                   IN  IF is_letter(d) \/ is_digit(d) \/ d = MINUS \/ d = UNDERSCORE
                       THEN TRUE
                       ELSE IF d = BACKSLASH THEN ~has_newline_at(q, 1)
                       ELSE is_non_ascii(c)
        THEN name_token("Hash", consume_name(q))
        ELSE Res(q, Delim(c))

\* '$', '*', '^', '~': the two-character match token, or Delim.
match_arm(p, c, kind) ==
    IF starts_with(p, <<c, EQUALS>>) THEN Res(advance(p, 2), Token(kind))
    ELSE Res(advance(p, 1), Delim(c))

\* The numeric-start test of the '+' and '-' arms.
sign_starts_number(p) ==
    \/ has_at_least(p, 1) /\ is_digit(char_at(p, 1))
    \/ has_at_least(p, 2) /\ char_at(p, 1) = DOT /\ is_digit(char_at(p, 2))

plus_arm(p, c) ==
    IF sign_starts_number(p) THEN Call("consume_numeric")
    ELSE Res(advance(p, 1), Delim(c))

minus_arm(p, c) ==
    IF sign_starts_number(p) THEN Call("consume_numeric")
    ELSE IF starts_with(p, <<MINUS, MINUS, 62>>) THEN Res(advance(p, 3), Token("CDC"))
    ELSE IF is_ident_start(p) THEN Call("consume_ident_like")
    ELSE Res(advance(p, 1), Delim(c))

dot_arm(p, c) ==
    IF has_at_least(p, 1) /\ is_digit(char_at(p, 1)) THEN Call("consume_numeric")
    ELSE Res(advance(p, 1), Delim(c))

less_arm(p, c) ==
    IF starts_with(p, <<LESS, 33, MINUS, MINUS>>) THEN Res(advance(p, 4), Token("CDO"))
    ELSE Res(advance(p, 1), Delim(c))

at_arm(p, c) ==
    LET q == advance(p, 1)
    IN  IF is_ident_start(q)
        THEN name_token("AtKeyword", consume_name(q))
        ELSE Res(q, Delim(c))

u_arm(p) ==
    IF /\ has_at_least(p, 2)
       /\ char_at(p, 1) = PLUS
       /\ (is_hex_digit(char_at(p, 2)) \/ char_at(p, 2) = QUESTION)
    THEN Call("consume_unicode_range")
    ELSE Call("consume_ident_like")

pipe_arm(p, c) ==
    IF starts_with(p, <<PIPE, EQUALS>>) THEN Res(advance(p, 2), Token("DashMatch"))
    ELSE IF starts_with(p, <<PIPE, PIPE>>) THEN Res(advance(p, 2), Token("Column"))
    ELSE Res(advance(p, 1), Delim(c))

\* The arms that advance one byte and return a fixed token.
single_char_kind(c) ==
    CASE c = LPAREN -> "ParenthesisBlock"
      [] c = RPAREN -> "CloseParenthesis"
      [] c = COMMA -> "Comma"
      [] c = COLON -> "Colon"
      [] c = SEMICOLON -> "Semicolon"
      [] c = LBRACKET -> "SquareBracketBlock"
      [] c = RBRACKET -> "CloseSquareBracket"
      [] c = LBRACE -> "CurlyBracketBlock"
      [] c = RBRACE -> "CloseCurlyBracket"
      [] OTHER -> ""

\* The match on the current character, arm by arm.
next_token_arm(p) ==
    LET c == current_char(p)
    IN  IF is_whitespace(c) THEN Res(whitespace_run(p), Token("WhiteSpace"))
        ELSE IF c = DQUOTE THEN Call("consume_string")
        ELSE IF c = HASH THEN hash_arm(p, c)
        ELSE IF c = DOLLAR THEN match_arm(p, c, "SuffixMatch")
        ELSE IF c = SQUOTE THEN Call("consume_string")
        ELSE IF c = STAR THEN match_arm(p, c, "SubstringMatch")
        ELSE IF c = PLUS THEN plus_arm(p, c)
        ELSE IF c = MINUS THEN minus_arm(p, c)
        ELSE IF c = DOT THEN dot_arm(p, c)
        ELSE IF is_digit(c) THEN Call("consume_numeric")
        ELSE IF c = LESS THEN less_arm(p, c)
        ELSE IF c = AT THEN at_arm(p, c)
        ELSE IF c = 117 \/ c = 85 THEN u_arm(p)
        ELSE IF is_letter(c) \/ c = UNDERSCORE \/ c = NUL THEN Call("consume_ident_like")
        ELSE IF c = BACKSLASH
        THEN IF ~has_newline_at(p, 1) THEN Call("consume_ident_like")
             ELSE Res(advance(p, 1), Delim(c))
        ELSE IF c = CARET THEN match_arm(p, c, "PrefixMatch")
        ELSE IF c = PIPE THEN pipe_arm(p, c)
        ELSE IF c = TILDE THEN match_arm(p, c, "IncludeMatch")
        ELSE IF single_char_kind(c) # "" THEN Res(advance(p, 1), Token(single_char_kind(c)))
        ELSE IF is_non_ascii(c) THEN Call("consume_ident_like")
        ELSE Res(advance(p, 1), Delim(c))

\* The call an arm ends in, or the arm's own token.
arm_result(p, arm) ==
    IF arm.tok.kind # "Call" THEN arm
    ELSE IF arm.tok.text = "consume_string"
    THEN consume_string(p, current_char(p) = SQUOTE)
    ELSE IF arm.tok.text = "consume_numeric" THEN consume_numeric(p)
    ELSE IF arm.tok.text = "consume_unicode_range" THEN consume_unicode_range(p)
    ELSE consume_ident_like(p)

next_token_match(p) == arm_result(p, next_token_arm(p))

\* After the comments: None at the end of the input, else the match.
next_token_after(cm) ==
    IF cm.panic THEN PanicAt(cm.pos)
    ELSE IF is_eof(cm.pos) THEN Res(cm.pos, EndOfInput)
    ELSE next_token_match(cm.pos)

\* next_token: the token and the position after it; EndOfInput for None.
next_token(p) == next_token_after(consume_comments(p))

\* Where the token of next_token(p) starts: after the comments.
token_start(p) == consume_comments(p).pos

----------------------------------------------------------------------------
(* The inputs.  Each is a valid UTF-8 string: a fixed prefix followed by   *)
(* at most MaxBody characters of a small alphabet chosen for one scanner.  *)

MaxBody == 3
MaxDigits == 20

RECURSIVE Flatten(_)
Flatten(chars) == IF chars = <<>> THEN <<>> ELSE chars[1] \o Flatten(Tail(chars))

Strings(alphabet, n) ==
    {Flatten(cs) : cs \in UNION {[1..k -> alphabet] : k \in 0..n}}

Family(prefix, alphabet) == {prefix \o body : body \in Strings(alphabet, MaxBody)}

E_ACUTE == <<195, 169>>      \* U+00E9, two bytes

\* url( ...
UrlInputs ==
    Family(<<117, 114, 108, LPAREN>>,
           {<<LPAREN>>, <<RPAREN>>, <<BACKSLASH>>, <<DQUOTE>>, <<LF>>, <<97>>,
            E_ACUTE})
    \cup Family(<<117, 114, 108, LPAREN, 97, SPACE>>,
                {<<BACKSLASH>>, <<RPAREN>>, <<97>>})

\* whitespace and comments
CommentInputs ==
    Family(<<>>, {<<SPACE>>, <<SLASH>>, <<STAR>>, <<97>>})
    \cup Family(<<SPACE, SLASH, STAR>>, {<<SPACE>>, <<SLASH>>, <<STAR>>, <<LF>>})
    \cup Family(<<SLASH, STAR, STAR, SLASH, SLASH, STAR>>,
                {<<SLASH>>, <<STAR>>, <<97>>, E_ACUTE})

\* U+ ...
RangeInputs ==
    Family(<<85, PLUS>>, {<<55>>, <<50>>, <<70>>, <<QUESTION>>, <<MINUS>>, <<103>>})

\* U+ hex digits and question marks up to and past six characters
WildcardInputs ==
    {<<85, PLUS>> \o hex \o [i \in 1..k |-> QUESTION] \o after :
        hex \in {<<>>, <<52>>, <<49, 48>>, <<97, 98, 67>>, <<70, 70, 70, 70, 70>>,
                 <<70, 70, 70, 70, 70, 70>>},
        k \in 1..7,
        after \in {<<>>, <<MINUS, 50>>, <<103>>}}

\* # ...
HashInputs ==
    Family(<<HASH>>, {<<MINUS>>, <<BACKSLASH>>, <<LF>>, <<97>>, <<49>>, E_ACUTE})

\* numbers
NumericInputs ==
    Family(<<>>, {<<PLUS>>, <<MINUS>>, <<DOT>>, <<49>>, <<101>>, <<PERCENT>>})
    \cup Family(<<49>>, {<<PLUS>>, <<DOT>>, <<49>>, <<101>>, <<69>>, <<SPACE>>})
    \cup {[i \in 1..n |-> 57] : n \in 18..MaxDigits}
    \cup {<<MINUS>> \o [i \in 1..n |-> 57] : n \in 18..MaxDigits}

\* names, strings and escapes with NUL
NulInputs ==
    Family(<<>>, {<<NUL>>, <<BACKSLASH>>, <<DQUOTE>>, <<48>>, <<97>>, <<LPAREN>>})
    \cup Family(<<117, 114, 108, LPAREN>>, {<<NUL>>, <<BACKSLASH>>, <<SQUOTE>>, <<48>>})

\* quoted strings with newlines
StringInputs ==
    Family(<<DQUOTE>>, {<<97>>, <<LF>>, <<CR>>, <<BACKSLASH>>, <<DQUOTE>>})
    \cup Family(<<SQUOTE>>, {<<97>>, <<FF>>, <<BACKSLASH>>, <<SQUOTE>>})

\* '-', backslash and newline at the start of a name
IdentInputs ==
    Family(<<>>, {<<MINUS>>, <<BACKSLASH>>, <<LF>>, <<97>>, <<49>>})
    \cup Family(<<49>>, {<<MINUS>>, <<BACKSLASH>>, <<LF>>, <<97>>})

\* backslash escapes: no character, a non-hex character, or hex digits (zero,
\* 'A', the ends of the surrogate range and of the code space, seven digits)
\* with something after them
EscapeInputs ==
    {<<BACKSLASH>> \o hex \o after :
        hex \in {<<>>, <<103>>, E_ACUTE, <<48>>, <<52, 49>>, <<48, 48, 48, 48, 48, 48>>,
                 <<68, 55, 70, 70>>, <<68, 56, 48, 48>>, <<100, 102, 102, 102>>,
                 <<69, 48, 48, 48>>, <<49, 48, 70, 70, 70, 70>>,
                 <<49, 49, 48, 48, 48, 48>>, <<70, 70, 70, 70, 70, 70>>,
                 <<48, 48, 48, 48, 52, 49, 55>>},
        after \in {<<>>, <<SPACE>>, <<SPACE, SPACE>>, <<TAB>>, <<LF>>, <<FF, 103>>,
                   <<CR>>, <<CR, LF>>, <<CR, LF, LF>>, <<CR, CR>>, <<103>>}}

Inputs ==
    UrlInputs \cup CommentInputs \cup RangeInputs \cup HashInputs
    \cup NumericInputs \cup NulInputs \cup StringInputs \cup IdentInputs
    \cup EscapeInputs \cup WildcardInputs

----------------------------------------------------------------------------
(* Tokenizer::new, next, peek, push_back                                   *)

\* Tokenizer::new(input)
New ==
    /\ position = 0
    /\ buffer = None
    /\ lastOp = "new"
    /\ prevOp = "new"
    /\ result = NoResult
    /\ tok = NoResult
    /\ prevTok = NoResult
    /\ spanStart = 0
    /\ tokStart = 0
    /\ tokEnd = 0

Init == input \in Inputs /\ New

\* A panic ends the use of the tokenizer.
Alive == result.kind # "Panic"

\* Faulty variant of peek_buffer: peek does not keep the token.
peek_buffer_dropped(r) == None

\* self.buffer = next_token(self)
peek_buffer(r) == IF IsToken(r.tok) THEN Some(r.tok) ELSE None

\* One run of next_token from the current position: the cursor moves, and a
\* token it produces is recorded with its span.
RunNextToken(r, peeking) ==
    /\ position' = r.pos
    /\ result' = r.tok
    /\ buffer' = IF peeking THEN peek_buffer(r) ELSE buffer
    /\ IF IsToken(r.tok)
       THEN /\ tok' = r.tok
            /\ prevTok' = tok
            /\ spanStart' = position
            /\ tokStart' = token_start(position)
            /\ tokEnd' = r.pos
       ELSE UNCHANGED <<tok, prevTok, spanStart, tokStart, tokEnd>>

\* Faulty variant of next: the token is returned without being taken out of
\* the buffer.
NextCallKeepsBuffer ==
    /\ Alive
    /\ lastOp' = "next"
    /\ prevOp' = lastOp
    /\ input' = input
    /\ IF buffer.some
       THEN /\ result' = buffer.token
            /\ UNCHANGED <<buffer, position, tok, prevTok, spanStart, tokStart, tokEnd>>
       ELSE RunNextToken(next_token(position), FALSE)

\* Tokenizer::next
NextCall ==
    /\ Alive
    /\ lastOp' = "next"
    /\ prevOp' = lastOp
    /\ input' = input
    /\ IF buffer.some
       THEN /\ result' = buffer.token
            /\ buffer' = None
            /\ UNCHANGED <<position, tok, prevTok, spanStart, tokStart, tokEnd>>
       ELSE RunNextToken(next_token(position), FALSE)

\* Faulty variant of peek: a buffered token is taken out, as next does.
PeekCallTakesBuffer ==
    /\ Alive
    /\ lastOp' = "peek"
    /\ prevOp' = lastOp
    /\ input' = input
    /\ IF buffer.some
       THEN /\ result' = buffer.token
            /\ buffer' = None
            /\ UNCHANGED <<position, tok, prevTok, spanStart, tokStart, tokEnd>>
       ELSE RunNextToken(next_token(position), TRUE)

\* Tokenizer::peek
PeekCall ==
    /\ Alive
    /\ lastOp' = "peek"
    /\ prevOp' = lastOp
    /\ input' = input
    /\ IF buffer.some
       THEN /\ result' = buffer.token
            /\ UNCHANGED <<position, buffer, tok, prevTok, spanStart, tokStart, tokEnd>>
       ELSE RunNextToken(next_token(position), TRUE)

\* The tokens a caller hands to push_back: the one it was last given, or one
\* of its own.
PushBackArgs == (IF IsToken(result) THEN {result} ELSE {}) \cup {Token("Comma")}

\* Faulty variant of push_back: no assert!, the buffered token is replaced.
PushBackOverwrite(token) ==
    /\ Alive
    /\ lastOp' = "push_back"
    /\ prevOp' = lastOp
    /\ UNCHANGED <<input, position, tok, prevTok, spanStart, tokStart, tokEnd>>
    /\ result' = result
    /\ buffer' = Some(token)

\* Tokenizer::push_back(token)
PushBack(token) ==
    /\ Alive
    /\ lastOp' = "push_back"
    /\ prevOp' = lastOp
    /\ UNCHANGED <<input, position, tok, prevTok, spanStart, tokStart, tokEnd>>
    /\ IF buffer.some
       THEN /\ result' = Panic          \* assert!(self.buffer.is_none())
            /\ buffer' = buffer
       ELSE /\ result' = result
            /\ buffer' = Some(token)

PushBackCall == \E token \in PushBackArgs : PushBack(token)

Next == NextCall \/ PeekCall \/ PushBackCall

Spec == Init /\ [][Next]_vars

\* A caller that never calls push_back.
NextNoPushBack == NextCall \/ PeekCall

SpecNoPushBack == Init /\ [][NextNoPushBack]_vars

----------------------------------------------------------------------------
(* C1: no abort.                                                           *)

\* C1: Tokenization never fails abortively: every call of next and of peek
\* returns a token or EndOfInput; no call panics.
C1_NeverAborts == lastOp \in {"next", "peek"} => result.kind # "Panic"

----------------------------------------------------------------------------
(* C2: the cursor stays on a character boundary.                           *)

\* C2: In every state of a tokenizer in use, position is a UTF-8 character
\* boundary of input or equal to input.len(); it never exceeds input.len()
\* and never lands inside a multi-byte character.
C2_PositionOnCharBoundary == Alive => is_char_boundary(position)

----------------------------------------------------------------------------
(* C3: progress.                                                           *)

\* C3 as stated: every call of next either advances the cursor (position
\* strictly increases) or returns EndOfInput.
C3_EveryNextAdvances ==
    [][lastOp' = "next" => (position' > position \/ result' = EndOfInput)]_vars

\* C3: a call of next that finds the buffer empty and returns a token has
\* strictly advanced the cursor; a call that finds a token in the buffer
\* returns that token and leaves the cursor where it is.
C3_Progress ==
    [][lastOp' = "next" =>
          IF buffer.some
          THEN position' = position /\ result' = buffer.token
          ELSE IsToken(result') => position' > position]_vars

\* next has returned the token peek had put in the buffer, the cursor already
\* past it.
C3_Witness ==
    /\ lastOp = "next"
    /\ prevOp = "peek"
    /\ IsToken(result)
    /\ ~buffer.some
    /\ position = tokEnd
    /\ tokEnd > spanStart

----------------------------------------------------------------------------
(* C4: pushback idempotence.                                               *)

\* C4: peek followed by next returns the same token (or both return
\* EndOfInput); and next returning t, then push_back(t), then next returns t
\* again.
C4_PushbackIdempotence ==
    [][/\ (lastOp = "peek" /\ lastOp' = "next") => result' = result
       /\ (/\ lastOp = "push_back"
           /\ prevOp = "next"
           /\ buffer = Some(result)
           /\ lastOp' = "next") => result' = result]_vars

\* next has returned a token of the input that push_back had handed back.
C4_Witness ==
    /\ lastOp = "next"
    /\ prevOp = "push_back"
    /\ IsToken(result)
    /\ result = tok
    /\ ~buffer.some

----------------------------------------------------------------------------
(* C5: whitespace collapse.                                                *)

\* C5 as stated: the token sequence never contains two consecutive WhiteSpace
\* tokens, also when comments sit between whitespace runs.
C5_NoTwoWhiteSpace == ~(tok.kind = "WhiteSpace" /\ prevTok.kind = "WhiteSpace")

\* C5: two consecutive WhiteSpace tokens appear only where a comment
\* separates two whitespace runs: the second token then starts after the
\* place where the first ended.
C5_WhiteSpaceRuns ==
    (tok.kind = "WhiteSpace" /\ prevTok.kind = "WhiteSpace") => tokStart > spanStart

\* Two WhiteSpace tokens in a row, returned by next.
C5_Witness ==
    /\ lastOp = "next"
    /\ result.kind = "WhiteSpace"
    /\ tok.kind = "WhiteSpace"
    /\ prevTok.kind = "WhiteSpace"
    /\ tokStart >= spanStart + 4

----------------------------------------------------------------------------
(* C6: unicode-range ordering.                                             *)

\* The bytes the last token was made from.
TokenBytes == SubSeq(input, tokStart + 1, tokEnd)

\* The index in the token's bytes of a '-' that hex digits follow, or 0.
RangeDash ==
    LET b == TokenBytes
        at == {i \in 3..(Len(b) - 1) : b[i] = MINUS}
    IN  IF at = {} THEN 0 ELSE CHOOSE i \in at : TRUE

\* C6 as stated: every UnicodeRange(start, end) has start <= end, in the
\* wildcard, the single-value and the explicit start-end form alike.
C6_RangeOrdered == tok.kind = "UnicodeRange" => tok.start <= tok.end

\* C6: a UnicodeRange(start, end) of the wildcard form or of the single-value
\* form has start <= end; in the explicit form start-end, end is the number
\* written after the '-', whatever its order to start.
C6_RangeOrdering ==
    tok.kind = "UnicodeRange" =>
        IF RangeDash = 0
        THEN tok.start <= tok.end
        ELSE tok.end = from_str_radix_16(
                           SubSeq(TokenBytes, RangeDash + 1, Len(TokenBytes)))

\* A wildcard range, start below end.
C6_Witness ==
    /\ tok.kind = "UnicodeRange"
    /\ \E i \in 1..Len(TokenBytes) : TokenBytes[i] = QUESTION
    /\ tok.start < tok.end

----------------------------------------------------------------------------
(* C7: hash classification.                                                *)

\* The ident-start rules as the specification lists them, for one character:
\* a letter, '_', NUL, non-ASCII, or a backslash not followed by a newline.
IdentStartCharacter(p) ==
    /\ p < Len(input)
    /\ LET c == current_char(p)
       IN  \/ is_letter(c)
           \/ c \in {UNDERSCORE, NUL}
           \/ is_non_ascii(c)
           \/ c = BACKSLASH /\ ~has_newline_at(p, 1)

\* ... or '-' followed by an ident-start character or by '-'.
IdentStartRules(p) ==
    \/ IdentStartCharacter(p)
    \/ /\ p + 1 < Len(input)
       /\ current_char(p) = MINUS
       /\ (IdentStartCharacter(p + 1) \/ current_char(p + 1) = MINUS)

\* A name-continuation character: [A-Za-z0-9_-], a backslash not followed by
\* a newline, or non-ASCII.
NameContinuation(p) ==
    /\ p < Len(input)
    /\ LET c == current_char(p)
       IN  \/ is_letter(c) \/ is_digit(c)
           \/ c \in {UNDERSCORE, MINUS}
           \/ is_non_ascii(c)
           \/ c = BACKSLASH /\ ~has_newline_at(p, 1)

\* C7: when dispatch sees '#', it emits IDHash if and only if what follows
\* the '#' satisfies the ident-start rules; otherwise Hash when a
\* name-continuation character follows, and Delim('#') when none does.
C7_HashClassification ==
    (IsToken(tok) /\ tokStart < Len(input) /\ input[tokStart + 1] = HASH) =>
        IF IdentStartRules(tokStart + 1) THEN tok.kind = "IDHash"
        ELSE IF NameContinuation(tokStart + 1) THEN tok.kind = "Hash"
        ELSE tok = Delim(HASH)

----------------------------------------------------------------------------
(* C8: integer exclusivity.                                                *)

NumericKinds == {"Number", "Percentage", "Dimension"}

\* The literal has a fraction part: a '.' in it.
LiteralHasFraction(repr) == \E i \in 1..Len(repr) : repr[i] = DOT

\* The literal has an exponent part: an 'e' or 'E' in it.
LiteralHasExponent(repr) == \E i \in 1..Len(repr) : repr[i] \in {101, 69}

\* C8: for every Number, Percentage and Dimension token, int_value is present
\* if and only if the consumed literal has no fraction part and no exponent
\* part.
C8_IntegerExclusivity ==
    tok.kind \in NumericKinds =>
        (tok.int_value.some
            <=> ~LiteralHasFraction(tok.repr) /\ ~LiteralHasExponent(tok.repr))

\* A number with an exponent and no fraction, without int_value.
C8_Witness ==
    /\ tok.kind \in NumericKinds
    /\ LiteralHasExponent(tok.repr)
    /\ ~LiteralHasFraction(tok.repr)
    /\ ~tok.int_value.some

----------------------------------------------------------------------------
(* C9: total coverage.                                                     *)

\* C9: the byte spans consumed by successive calls are contiguous, start at
\* offset 0 and end exactly at input.len() when EndOfInput is returned:
\* nothing skipped, nothing counted twice, nothing beyond the end.
C9_TotalCoverage ==
    Alive =>
        /\ 0 <= spanStart
        /\ spanStart <= tokStart
        /\ tokStart <= tokEnd
        /\ tokEnd <= position
        /\ position <= Len(input)
        /\ (IsToken(tok) => tokStart < tokEnd)
        /\ (result = EndOfInput => position = Len(input))

----------------------------------------------------------------------------
(* C10: NUL substitution.                                                  *)

TextKinds ==
    {"Ident", "AtKeyword", "Hash", "IDHash", "Function", "Dimension",
     "QuotedString", "Url"}

\* C10: the text of an Ident, AtKeyword, Hash, IDHash, Function, Dimension
\* unit, QuotedString or Url token never contains U+0000: a NUL of the input
\* inside a name, string or URL, bare or escaped, appears as U+FFFD.
C10_NoNulInText ==
    tok.kind \in TextKinds => \A i \in 1..Len(tok.text) : tok.text[i] # NUL

----------------------------------------------------------------------------
(* C11: a bad string stops at the newline.                                 *)

\* C11: when a top-level quoted string contains an unescaped newline, next
\* returns BadString with the cursor left exactly at that newline, and the
\* following next returns the WhiteSpace token of the run starting at it.
C11_BadStringAtNewline ==
    [][/\ (tok'.kind = "BadString" /\ position' # position) =>
              /\ position' < Len(input)
              /\ is_newline(input[position' + 1])
       /\ (tok.kind = "BadString" /\ ~buffer.some /\ lastOp' = "next") =>
              /\ result'.kind = "WhiteSpace"
              /\ spanStart' = tokEnd
              /\ tokStart' = tokEnd
              /\ position' > tokEnd]_vars

\* next returned BadString, and the next after it the WhiteSpace at the newline.
C11_Witness ==
    /\ lastOp = "next"
    /\ prevOp = "next"
    /\ prevTok.kind = "BadString"
    /\ result.kind = "WhiteSpace"
    /\ tok = result
    /\ tokStart = spanStart
    /\ is_newline(input[tokStart + 1])

----------------------------------------------------------------------------
(* C12: bad-URL recovery.                                                  *)

\* The number of consecutive backslashes that end at byte index i (1-based).
RECURSIVE BackslashesEndingAt(_)
BackslashesEndingAt(i) ==
    IF i >= 1 /\ i <= Len(input) /\ input[i] = BACKSLASH
    THEN 1 + BackslashesEndingAt(i - 1)
    ELSE 0

\* The byte at index i is a ')' that no backslash escapes.
UnescapedCloseParen(i) ==
    /\ i >= 1
    /\ i <= Len(input)
    /\ input[i] = RPAREN
    /\ BackslashesEndingAt(i - 1) % 2 = 0

\* C12: a BadUrl token consumes up to and including a ')' that is not escaped
\* by a backslash, or to the end of input; afterwards the cursor is just past
\* that ')' or exactly at the end of input.
C12_BadUrlRecovery ==
    (tok.kind = "BadUrl" /\ position = tokEnd) =>
        \/ position = Len(input)
        \/ UnescapedCloseParen(position)

----------------------------------------------------------------------------
(* C13: push_back.                                                         *)

\* C13: push_back called while the buffer is occupied fails loudly and leaves
\* the buffered token as it is; called while the buffer is empty it stores
\* the token, leaves position unchanged, and that token is what the next
\* call of next returns.
C13_PushBack ==
    [][/\ lastOp' = "push_back" =>
              /\ position' = position
              /\ IF buffer.some
                 THEN result'.kind = "Panic" /\ buffer' = buffer
                 ELSE /\ result'.kind # "Panic"
                      /\ buffer'.some
                      /\ buffer'.token \in PushBackArgs
       /\ (lastOp = "push_back" /\ lastOp' = "next") =>
              /\ result' = buffer.token
              /\ position' = position
              /\ ~buffer'.some]_vars

\* push_back right after a peek that returned a token: the call panicked and
\* the token of the peek is still in the buffer.
C13_Witness ==
    /\ lastOp = "push_back"
    /\ prevOp = "peek"
    /\ result.kind = "Panic"
    /\ buffer = Some(tok)

----------------------------------------------------------------------------
(* C14: pushback occupancy.                                                *)

----------------------------------------------------------------------------
(* C15: is_ident_start.                                                    *)

\* The last token came from the '-' arm's ident-start test: it starts with a
\* '-' that begins neither a number nor "-->".
MinusArmTestsIdentStart ==
    /\ IsToken(tok)
    /\ tokStart < Len(input)
    /\ input[tokStart + 1] = MINUS
    /\ ~sign_starts_number(tokStart)
    /\ ~starts_with(tokStart, <<MINUS, MINUS, 62>>)

\* Where the literal of the last numeric token ends.
LiteralEnd ==
    tokStart + Len(tok.repr) + (IF input[tokStart + 1] = PLUS THEN 1 ELSE 0)

\* C15: is_ident_start is true exactly under the ident-start rules; so at a
\* '-' that is followed by a backslash and a newline dispatch emits
\* Delim('-') and not an Ident, and a number followed by it is a Number and
\* not a Dimension.
C15_IdentStart ==
    /\ MinusArmTestsIdentStart =>
           /\ is_ident_start(tokStart) <=> IdentStartRules(tokStart)
           /\ IF IdentStartRules(tokStart)
              THEN tok.kind \in {"Ident", "Function", "Url", "BadUrl"}
              ELSE tok = Delim(MINUS)
    /\ tok.kind \in {"Number", "Dimension"} =>
           (tok.kind = "Dimension" <=> IdentStartRules(LiteralEnd))

----------------------------------------------------------------------------
(* C16: escape decoding, seen in a name that begins with an escape.        *)

\* The last token is a name that dispatch began at a backslash.
NameStartsWithEscape ==
    /\ tok.kind \in {"Ident", "Function"}
    /\ input[tokStart + 1] = BACKSLASH

\* How many of the bytes after byte index i are hex digits, up to n.
RECURSIVE HexDigitsAfter(_, _)
HexDigitsAfter(i, n) ==
    IF n > 0 /\ i < Len(input) /\ is_hex_digit(input[i + 1])
    THEN 1 + HexDigitsAfter(i + 1, n - 1)
    ELSE 0

\* The value of the n hex digits after byte index i.
RECURSIVE HexValueAfter(_, _)
HexValueAfter(i, n) ==
    IF n = 0 THEN 0
    ELSE HexValueAfter(i, n - 1) * 16 + hex_digit_value(input[i + n])

\* The bytes of one whitespace after byte index i, "\r\n" being one.
WhitespaceAfter(i) ==
    IF i >= Len(input) THEN 0
    ELSE IF input[i + 1] \in {SPACE, TAB, LF, FF} THEN 1
    ELSE IF input[i + 1] # CR THEN 0
    ELSE IF i + 1 < Len(input) /\ input[i + 2] = LF THEN 2 ELSE 1

\* A scalar value other than zero.
ValidCodePoint(v) == v > 0 /\ v <= 1114111 /\ ~(v >= 55296 /\ v <= 57343)

\* What the escape after the backslash at byte offset b must yield, and the
\* offset it must end at.
StatedEscape(b) ==
    LET i == b + 1
        h == HexDigitsAfter(i, 6)
        v == HexValueAfter(i, h)
    IN  IF i >= Len(input) THEN [ch |-> REPLACEMENT_CHAR, end |-> i]
        ELSE IF h > 0
        THEN [ch |-> IF ValidCodePoint(v) THEN v ELSE REPLACEMENT_CHAR,
              end |-> i + h + WhitespaceAfter(i + h)]
        ELSE [ch |-> current_char(i), end |-> consume_char(i).next]

\* C16: after a consumed backslash, consume_escape at EOF yields U+FFFD; on a
\* hex digit it consumes at most 6 hex digits and at most one whitespace
\* ("\r\n" as one) and yields that code point, or U+FFFD for zero, a
\* surrogate or a value above U+10FFFF; on another character it consumes
\* exactly that character and yields it.
C16_EscapeDecoding ==
    NameStartsWithEscape =>
        LET e == StatedEscape(tokStart)
        IN  /\ Len(tok.text) >= 1
            /\ tok.text[1] = e.ch
            /\ tokEnd >= e.end
            /\ IF NameContinuation(e.end) \/ (e.end < Len(input) /\ input[e.end + 1] = NUL)
               THEN /\ Len(tok.text) >= 2
                    /\ (is_letter(input[e.end + 1]) \/ is_digit(input[e.end + 1])) =>
                           tok.text[2] = input[e.end + 1]
               ELSE /\ Len(tok.text) = 1
                    /\ tokEnd = e.end + (IF tok.kind = "Function" THEN 1 ELSE 0)

\* Six hex digits above U+10FFFF and "\r\n" consumed as one escape: U+FFFD.
C16_Witness ==
    /\ NameStartsWithEscape
    /\ HexDigitsAfter(tokStart + 1, 6) = 6
    /\ HexValueAfter(tokStart + 1, 6) > 1114111
    /\ tok.text = <<REPLACEMENT_CHAR>>
    /\ tokEnd = tokStart + 9

----------------------------------------------------------------------------
(* C17: comment skipping.                                                  *)

\* The input at byte offset p starts with "/*".
StartsComment(p) ==
    p >= 0 /\ p + 2 <= Len(input) /\ input[p + 1] = SLASH /\ input[p + 2] = STAR

\* Where the comment that opens at p ends: just past the first "*/" whose '*'
\* lies after the opening "/*", or at the end of input.
CommentEnd(p) ==
    LET closes == {j \in (p + 3)..(Len(input) - 1) :
                       input[j] = STAR /\ input[j + 1] = SLASH}
    IN  IF closes = {} THEN Len(input)
        ELSE (CHOOSE j \in closes : \A k \in closes : j <= k) + 1

\* Past every comment of a back-to-back run that begins at p.
RECURSIVE PastComments(_)
PastComments(p) == IF StartsComment(p) THEN PastComments(CommentEnd(p)) ELSE p

\* C17: a call of next or peek that runs the scanner and returns skips every
\* back-to-back comment at the cursor without a token for them: the token it
\* returns starts where the input no longer starts with "/*", and when the
\* comments run to the end of input (the last one unterminated or not) it
\* returns EndOfInput.
C17_CommentSkipping ==
    [][(lastOp' \in {"next", "peek"} /\ ~buffer.some /\ result'.kind # "Panic") =>
          LET q == PastComments(position)
          IN  IF q = Len(input)
              THEN result' = EndOfInput /\ position' = Len(input)
              ELSE /\ IsToken(result')
                   /\ spanStart' = position
                   /\ tokStart' = q
                   /\ ~StartsComment(tokStart')
                   /\ position' > q]_vars

\* A token that follows two or more back-to-back comments.
C17_Witness ==
    /\ IsToken(tok)
    /\ StartsComment(spanStart)
    /\ StartsComment(CommentEnd(spanStart))
    /\ tokStart >= CommentEnd(CommentEnd(spanStart))
    /\ tokStart < Len(input)

----------------------------------------------------------------------------
(* C18: unicode-range wildcards.                                           *)

\* How many of the bytes after byte index i are '?', up to n.
RECURSIVE QuestionMarksAfter(_, _)
QuestionMarksAfter(i, n) ==
    IF n > 0 /\ i < Len(input) /\ input[i + 1] = QUESTION
    THEN 1 + QuestionMarksAfter(i + 1, n - 1)
    ELSE 0

\* The hex digits h and question marks k that follow the "U+" of the last
\* token, and the value of the hex digits.
StatedWildcard ==
    LET i == tokStart + 2
        h == HexDigitsAfter(i, 6)
    IN  [h |-> h, k |-> QuestionMarksAfter(i + h, 6 - h),
         first |-> HexValueAfter(i, h)]

\* C18: after "U+" the scanner consumes h <= 6 hex digits and then
\* k <= 6 - h question marks; when k >= 1 the token is
\* UnicodeRange(first * 16^k, (first + 1) * 16^k - 1), within 32 bits, and
\* nothing after the question marks is consumed.
C18_Wildcards ==
    (tok.kind = "UnicodeRange" /\ StatedWildcard.k >= 1) =>
        LET w == StatedWildcard
        IN  /\ w.h + w.k <= 6
            /\ tok.start = w.first * (16 ^ w.k)
            /\ tok.end = (w.first + 1) * (16 ^ w.k) - 1
            /\ tok.end <= 16777215
            /\ tokEnd = tokStart + 2 + w.h + w.k

\* A wildcard range that stopped at six characters with a '?' left over.
C18_Witness ==
    /\ tok.kind = "UnicodeRange"
    /\ StatedWildcard.h >= 1
    /\ StatedWildcard.k >= 1
    /\ StatedWildcard.h + StatedWildcard.k = 6
    /\ tokEnd < Len(input)
    /\ input[tokEnd + 1] = QUESTION

----------------------------------------------------------------------------
(* C19: the text of a numeric literal.                                     *)

\* How many digits the byte string b has after its first i bytes.
RECURSIVE DigitRun(_, _)
DigitRun(b, i) ==
    IF i < Len(b) /\ is_digit(b[i + 1]) THEN 1 + DigitRun(b, i + 1) ELSE 0

\* b matches [+-]? ( \d+ (\. \d+)? | \. \d+ ) ( [eE] [+-]? \d+ )?
MatchesNumber(b) ==
    LET sign == IF Len(b) > 0 /\ b[1] \in {PLUS, MINUS} THEN 1 ELSE 0
        whole == DigitRun(b, sign)
        dotAt == sign + whole
        hasDot == dotAt < Len(b) /\ b[dotAt + 1] = DOT
        fraction == IF hasDot THEN DigitRun(b, dotAt + 1) ELSE 0
        expAt == dotAt + (IF hasDot THEN 1 + fraction ELSE 0)
        hasExp == expAt < Len(b) /\ b[expAt + 1] \in {101, 69}
        expSign == IF hasExp /\ expAt + 1 < Len(b) /\ b[expAt + 2] \in {PLUS, MINUS}
                   THEN 1 ELSE 0
        exponent == IF hasExp THEN DigitRun(b, expAt + 1 + expSign) ELSE 0
    IN  /\ whole > 0 \/ hasDot
        /\ hasDot => fraction > 0
        /\ hasExp => exponent > 0
        /\ Len(b) = expAt + (IF hasExp THEN 1 + expSign + exponent ELSE 0)

\* The n bytes of the input from where the last token starts.
BytesOfToken(n) == SubSeq(input, tokStart + 1, tokStart + n)

\* C19: the literal the numeric scanner consumes contains a digit and
\* matches [+-]? ( \d+ (\. \d+)? | \. \d+ ) ( [eE] [+-]? \d+ )?, and it is the
\* longest such text: a '.' or 'e'/'E' without the digit it needs is left
\* for the following token.
C19_NumericLiteral ==
    tok.kind \in NumericKinds =>
        LET n == LiteralEnd - tokStart
            literal == BytesOfToken(n)
        IN  /\ tokStart + n <= tokEnd
            /\ (tok.kind = "Number") => tokStart + n = tokEnd
            /\ tok.repr = IF literal[1] = PLUS THEN Tail(literal) ELSE literal
            /\ \E i \in 1..n : is_digit(literal[i])
            /\ MatchesNumber(literal)
            /\ \A longer \in (n + 1)..(Len(input) - tokStart) :
                   ~MatchesNumber(BytesOfToken(longer))

\* A number with an exponent, and a '.' after it left for the next token.
C19_Witness ==
    /\ tok.kind = "Number"
    /\ LiteralHasExponent(tok.repr)
    /\ tokEnd < Len(input)
    /\ input[tokEnd + 1] = DOT

----------------------------------------------------------------------------
(* C20: peek is transparent.                                               *)

\* Where a second tokenizer over the same input, on which only next has been
\* called as many times as on this one, is: a buffered token has been scanned
\* here and not yet there.
ReferencePosition == IF buffer.some THEN spanStart ELSE position

\* What the next call on that second tokenizer returns when it is at p, and
\* where it leaves it.
ReferenceNext(p) == next_token(p)

\* C20: without push_back, every next returns what the next call on a
\* tokenizer that is only ever asked for next returns, and leaves that
\* tokenizer's following answers the same; a peek returns the same token
\* without using it up, and a peek made while a token is buffered returns
\* that token and changes neither position nor the buffer.
C20_PeekTransparency ==
    [][ \A p \in {ReferencePosition} : \A q \in {ReferencePosition'} :
        \A before \in {ReferenceNext(p)} :
        /\ result' = before.tok
        /\ lastOp' = "next" /\ result' # Panic => q = before.pos
        /\ lastOp' = "peek" /\ result' # Panic =>
               q = p \/ (q = before.pos /\ ReferenceNext(q) = before)
        /\ lastOp' = "peek" /\ buffer.some =>
               /\ result' = buffer.token
               /\ position' = position
               /\ buffer' = buffer
      ]_vars

\* A next after a peek has returned the peeked token, which was not the first
\* of the input, and the buffer is empty again.
C20_Witness ==
    /\ lastOp = "next"
    /\ prevOp = "peek"
    /\ result = tok
    /\ ~buffer.some
    /\ spanStart > 0
    /\ position = tokEnd

----------------------------------------------------------------------------
(* C21: EndOfInput is sticky.                                              *)

\* A call of next or of peek is made.
Scans == lastOp' \in {"next", "peek"}

\* Once EndOfInput was returned, a following next or peek returns it again
\* and leaves position where it was.
EndOfInputRepeats ==
    result = EndOfInput /\ lastOp \in {"next", "peek"} /\ Scans =>
        result' = EndOfInput /\ position' = position

\* With nothing buffered and no input left, whatever token came last, next
\* and peek return EndOfInput and leave position where it was.
EndOfInputReached ==
    ~buffer.some /\ is_eof(position) /\ Alive /\ Scans =>
        result' = EndOfInput /\ position' = position

C21_Repeats == [][EndOfInputRepeats]_vars

\* The exhausted tokenizer returns EndOfInput unless the last token left the
\* cursor past the end of the input.
C21_ReachedUnlessOverrun ==
    [][position <= Len(input) => EndOfInputReached]_vars

====
